---- MODULE Spec2Model ----
(***************************************************************************)
(* A model of bidimensional/spline.py: the one-dimensional natural cubic   *)
(* spline (class Spline) and the two-dimensional path spline built on it   *)
(* (classes Spline2DBase and Spline2D); of bidimensional/circumcircle.py   *)
(* (class Circumcircle); and of bidimensional/core/lines.py (class Line).  *)
(*                                                                         *)
(* Numbers.  The program computes in IEEE doubles.  Here a finite number   *)
(* is an exact fraction <<n, d>> in lowest terms with d > 0, and the one   *)
(* value NonFinite stands for inf, -inf and nan together.  Every divisor   *)
(* in the program is a finite knot difference or a pivot of the finite     *)
(* coefficient matrix, so an operation with a non-finite operand always    *)
(* gives a non-finite result and the three need not be told apart.         *)
(* Rounding is not modelled.                                               *)
(*                                                                         *)
(* Arrays.  Python lists and numpy arrays are sequences; the element the   *)
(* source calls s[i] is s[i + 1] here, read through At(s, i).              *)
(*                                                                         *)
(* Local variables.  A value the source computes once and reads many times *)
(* is bound as the member of a singleton set, Only({e(v) : v \in {value}}),*)
(* which makes TLC compute it once as well.                                *)
(***************************************************************************)
EXTENDS Integers, Sequences, FiniteSets, TLC

\* Longest input sequence handed to a constructor.
MaxLen == 3

\* Numerators k of the queried parameters k/2 run over -2 .. MaxQueryNum.
MaxQueryNum == 10

\* The values an input coordinate may take.  The differences 3 and 4 give
\* diagonal waypoint moves of length exactly 5.
Coords == {0, 3, 4}

----------------------------------------------------------------------------
(* Floating-point numbers as exact fractions.                              *)

\* The member of a singleton set.
Only(S) == CHOOSE e \in S : TRUE

Abs(n) == IF n < 0 THEN -n ELSE n

RECURSIVE Gcd(_, _)
Gcd(m, n) == IF n = 0 THEN m ELSE Gcd(n, m % n)

NonFinite == <<0, 0>>

IsFinite(p) == p[2] # 0

\* The fraction n / d in lowest terms.
NormV(n, d, g) ==
    IF d < 0 THEN <<(-n) \div g, (-d) \div g>> ELSE <<n \div g, d \div g>>

Norm(n, d) ==
    Only({IF a[2] = 0 THEN NonFinite
          ELSE NormV(a[1], a[2], Gcd(Abs(a[1]), Abs(a[2]))) :
            a \in {<<n, d>>}})

Rat(n) == <<n, 1>>

\* The operations on two numbers already evaluated.  Sums and products
\* cancel common factors before they multiply.
AddV(p, q) ==
    IF IsFinite(p) /\ IsFinite(q)
    THEN LET g == Gcd(p[2], q[2])
         IN  Norm(p[1] * (q[2] \div g) + q[1] * (p[2] \div g),
                  p[2] * (q[2] \div g))
    ELSE NonFinite

NegV(p) == IF IsFinite(p) THEN <<-p[1], p[2]>> ELSE NonFinite

MulV(p, q) ==
    IF IsFinite(p) /\ IsFinite(q)
    THEN LET g1 == Gcd(Abs(p[1]), q[2])
             g2 == Gcd(Abs(q[1]), p[2])
         IN  Norm((p[1] \div g1) * (q[1] \div g2),
                  (p[2] \div g2) * (q[2] \div g1))
    ELSE NonFinite

\* numpy scalar division: a zero divisor gives inf or nan, with a warning
\* and no exception.
DivV(p, q) ==
    IF IsFinite(p) /\ IsFinite(q) /\ q[1] # 0
    THEN MulV(p, IF q[1] < 0 THEN <<-q[2], -q[1]>> ELSE <<q[2], q[1]>>)
    ELSE NonFinite

\* The arithmetic of the program: each operand is evaluated once.
Add(p, q) == Only({AddV(a[1], a[2]) : a \in {<<p, q>>}})

Sub(p, q) == Only({AddV(a[1], NegV(a[2])) : a \in {<<p, q>>}})

Mul(p, q) == Only({MulV(a[1], a[2]) : a \in {<<p, q>>}})

Div(p, q) == Only({DivV(a[1], a[2]) : a \in {<<p, q>>}})

\* Comparisons; every comparison with nan is false.
Less(p, q) == IsFinite(p) /\ IsFinite(q) /\ p[1] * q[2] < q[1] * p[2]

Leq(p, q) == IsFinite(p) /\ IsFinite(q) /\ p[1] * q[2] <= q[1] * p[2]

IsZero(p) == IsFinite(p) /\ p[1] = 0

\* math.ceil of a finite fraction.
Ceil(p) == -((-p[1]) \div p[2])

----------------------------------------------------------------------------
(* Python sequences.                                                       *)

\* s[i] is defined for -len(s) <= i < len(s); a negative i counts from the end.
InRange(s, i) == -Len(s) <= i /\ i < Len(s)

At(s, i) == IF i < 0 THEN s[Len(s) + i + 1] ELSE s[i + 1]

\* np.diff: a[1:] - a[:-1], empty for fewer than two elements.
Diff(s) == [i \in 1 .. (Len(s) - 1) |-> Sub(s[i + 1], s[i])]

\* Mutant of Cumsum: the running total is never carried forward.
CumsumNoCarry(s) == s

\* np.cumsum: the running totals.
RECURSIVE SumTo(_, _)
SumTo(s, k) == IF k = 0 THEN Rat(0) ELSE Add(SumTo(s, k - 1), s[k])

Cumsum(s) == [k \in 1 .. Len(s) |-> SumTo(s, k)]

----------------------------------------------------------------------------
(* class Spline: construction.                                             *)

AbsR(p) == <<Abs(p[1]), p[2]>>

\* An index pair of an n x n numpy matrix.
MatIdx(n, r, c) == -n <= r /\ r < n /\ -n <= c /\ c < n

Zeros(n) == [rc \in (0 .. n - 1) \X (0 .. n - 1) |-> Rat(0)]

MSet(m, r, c, v) == [m EXCEPT ![<<r, c>>] = v]

\* The loop of __calc_matrix_a, from iteration i on.
RECURSIVE MatrixALoop(_, _, _, _)
MatrixALoop(matrix, diff, x_dim, i) ==
    IF i >= x_dim - 1 THEN matrix
    ELSE LET m1 == IF i # x_dim - 2
                   THEN MSet(matrix, i + 1, i + 1,
                             Mul(Rat(2), Add(At(diff, i), At(diff, i + 1))))
                   ELSE matrix
             m2 == MSet(m1, i + 1, i, At(diff, i))
             m3 == MSet(m2, i, i + 1, At(diff, i))
         IN  MatrixALoop(m3, diff, x_dim, i + 1)

\* __calc_matrix_a raises IndexError when the matrix has no entry [0, 0] or
\* [0, 1] (fewer than two knots), or diff is too short for the loop.
CalcMatrixARaises(diff, x_dim) ==
    \/ ~MatIdx(x_dim, 0, 0)
    \/ \E i \in 0 .. (x_dim - 2) :
          \/ ~InRange(diff, i)
          \/ i # x_dim - 2 /\ ~InRange(diff, i + 1)
    \/ ~MatIdx(x_dim, 0, 1)
    \/ ~MatIdx(x_dim, x_dim - 1, x_dim - 2)

\* Mutant of CalcMatrixA: the two off-diagonal entries of the boundary rows
\* that the loop wrote are not set back to zero.
CalcMatrixANoReset(diff, x_dim) ==
    LET m0 == MSet(Zeros(x_dim), 0, 0, Rat(1))
        m1 == MatrixALoop(m0, diff, x_dim, 0)
    IN  MSet(m1, x_dim - 1, x_dim - 1, Rat(1))

CalcMatrixA(diff, x_dim) ==
    LET m0 == MSet(Zeros(x_dim), 0, 0, Rat(1))
        m1 == MatrixALoop(m0, diff, x_dim, 0)
        m2 == MSet(m1, 0, 1, Rat(0))
        m3 == MSet(m2, x_dim - 1, x_dim - 2, Rat(0))
    IN  MSet(m3, x_dim - 1, x_dim - 1, Rat(1))

\* __calc_matrix_b reads d[i], d[i + 1], d[i + 2], diff[i], diff[i + 1] for
\* i in range(x_dim - 2).
CalcMatrixBRaises(d, diff, x_dim) ==
    \E i \in 0 .. (x_dim - 3) :
        \/ ~InRange(d, i + 2) \/ ~InRange(d, i + 1) \/ ~InRange(d, i)
        \/ ~InRange(diff, i + 1) \/ ~InRange(diff, i)

CalcMatrixB(d, diff, x_dim) ==
    [k \in 1 .. x_dim |->
        IF k - 1 \in 1 .. (x_dim - 2)
        THEN LET i == k - 2
             IN  Sub(Div(Mul(Rat(3), Sub(At(d, i + 2), At(d, i + 1))),
                         At(diff, i + 1)),
                     Div(Mul(Rat(3), Sub(At(d, i + 1), At(d, i))),
                         At(diff, i)))
        ELSE Rat(0)]

\* The row LAPACK pivots on in column k: the largest entry from row k down.
PivotRow(m, n, k) ==
    CHOOSE r \in k .. (n - 1) :
        \A r2 \in k .. (n - 1) : Leq(AbsR(m[<<r2, k>>]), AbsR(m[<<r, k>>]))

\* One elimination step: rows k and p are swapped, row k is divided by the
\* pivot and column k is cleared from every other row.
EliminateColumn(m, v, n, k, p) ==
    LET sw(r) == IF r = k THEN p ELSE IF r = p THEN k ELSE r
        M1(r, c) == m[<<sw(r), c>>]
        V1(r) == v[sw(r) + 1]
    IN  [m |-> [rc \in DOMAIN m |->
                  IF rc[1] = k THEN Div(M1(k, rc[2]), M1(k, k))
                  ELSE Sub(M1(rc[1], rc[2]),
                           Mul(Div(M1(rc[1], k), M1(k, k)), M1(k, rc[2])))],
         v |-> [i \in 1 .. n |->
                  IF i - 1 = k THEN Div(V1(k), M1(k, k))
                  ELSE Sub(V1(i - 1),
                           Mul(Div(M1(i - 1, k), M1(k, k)), V1(k)))]]

\* np.linalg.solve: elimination with partial pivoting, column k onwards.
\* An exactly zero pivot column is a singular matrix (LinAlgError).
RECURSIVE Eliminate(_, _, _, _)
Eliminate(m, v, n, k) ==
    IF k = n THEN [err |-> "", b |-> v]
    ELSE Only({IF IsZero(m[<<p, k>>])
               THEN [err |-> "LinAlgError", b |-> <<>>]
               ELSE Only({Eliminate(s.m, s.v, n, k + 1) :
                            s \in {EliminateColumn(m, v, n, k, p)}}) :
                 p \in {PivotRow(m, n, k)}})

Solve(matrix_a, matrix_b, n) ==
    Only({Eliminate(s.m, s.v, n, 0) :
            s \in {[m |-> matrix_a, v |-> matrix_b]}})

\* The comprehension for c reads d_diff[i] and x_diff[i], i in range(x_dim - 1).
CoefCRaises(d_diff, x_diff, x_dim) ==
    \E i \in 0 .. (x_dim - 2) : ~InRange(d_diff, i) \/ ~InRange(x_diff, i)

CoefC(d_diff, x_diff, b, x_dim) ==
    [k \in 1 .. (x_dim - 1) |->
        LET i == k - 1
        IN  Sub(Div(At(d_diff, i), At(x_diff, i)),
                Div(Mul(At(x_diff, i),
                        Add(At(b, i + 1), Mul(Rat(2), At(b, i)))),
                    Rat(3)))]

CoefA(b_diff, x_diff, x_dim) ==
    [k \in 1 .. (x_dim - 1) |->
        LET i == k - 1
        IN  Div(At(b_diff, i), Mul(Rat(3), At(x_diff, i)))]

\* A Spline whose constructor raised: no object exists.
NoSpline(e) ==
    [err |-> e, x |-> <<>>, y |-> <<>>, x_dim |-> 0,
     a |-> <<>>, b |-> <<>>, c |-> <<>>, d |-> <<>>]

\* The coefficients, once b is solved.
SplineCoefs(x, y, x_diff, d_diff, b) ==
    IF CoefCRaises(d_diff, x_diff, Len(x)) THEN NoSpline("IndexError")
    ELSE [err |-> "", x |-> x, y |-> y, x_dim |-> Len(x),
          a |-> CoefA(Diff(b), x_diff, Len(x)),
          b |-> b,
          c |-> CoefC(d_diff, x_diff, b, Len(x)),
          d |-> y]

\* Spline.__init__(x, y): the object built, or the exception raised (err).
\* d is np.array(y); x_dim is len(x).
SplineInit(x, y) ==
    Only({IF CalcMatrixARaises(in.x_diff, Len(in.x))
          THEN NoSpline("IndexError")
          ELSE IF CalcMatrixBRaises(in.y, in.x_diff, Len(in.x))
          THEN NoSpline("IndexError")
          ELSE Only({IF sol.err # "" THEN NoSpline(sol.err)
                     ELSE SplineCoefs(in.x, in.y, in.x_diff, in.d_diff, sol.b) :
                       sol \in {Solve(CalcMatrixA(in.x_diff, Len(in.x)),
                                      CalcMatrixB(in.y, in.x_diff, Len(in.x)),
                                      Len(in.x))}}) :
            in \in {[x |-> x, y |-> y,
                     x_diff |-> Diff(x), d_diff |-> Diff(y)]}})

----------------------------------------------------------------------------
(* class Spline: evaluation.                                               *)

\* bisect.bisect (bisect_right): the binary search, on a[lo:hi].
RECURSIVE BisectRight(_, _, _, _)
BisectRight(a, v, lo, hi) ==
    IF lo < hi
    THEN LET mid == (lo + hi) \div 2
         IN  IF Less(v, At(a, mid)) THEN BisectRight(a, v, lo, mid)
             ELSE BisectRight(a, v, mid + 1, hi)
    ELSE lo

SearchIndex(self, v) == BisectRight(self.x, v, 0, Len(self.x)) - 1

\* What a call gives back: None, a number, or a raised exception.
RetNone == [kind |-> "None", val |-> NonFinite]

RetValue(p) == [kind |-> "value", val |-> p]

RetRaise(e) == [kind |-> e, val |-> NonFinite]

OutOfBounds(self, v) == ~(Leq(At(self.x, 0), v) /\ Leq(v, At(self.x, -1)))

\* The segment lookup shared by the three evaluators: self.x[i] and then
\* self.a[i], self.b[i], self.c[i], self.d[i] must exist.
SegmentRaises(self, i) ==
    \/ ~InRange(self.x, i) \/ ~InRange(self.a, i)
    \/ ~InRange(self.b, i) \/ ~InRange(self.c, i) \/ ~InRange(self.d, i)

\* dx = x - self.x[i]
Dx(self, v, i) == Sub(v, At(self.x, i))

Position(self, v) ==
    IF OutOfBounds(self, v) THEN RetNone
    ELSE Only({IF SegmentRaises(self, i) THEN RetRaise("IndexError")
               ELSE Only({RetValue(
                        Add(Add(Add(Mul(At(self.a, i), Mul(dx, Mul(dx, dx))),
                                    Mul(At(self.b, i), Mul(dx, dx))),
                                Mul(At(self.c, i), dx)),
                            At(self.d, i))) :
                      dx \in {Dx(self, v, i)}}) :
                 i \in {SearchIndex(self, v)}})

FirstDerivative(self, v) ==
    IF OutOfBounds(self, v) THEN RetNone
    ELSE Only({IF ~InRange(self.x, i) \/ ~InRange(self.a, i)
                  \/ ~InRange(self.b, i) \/ ~InRange(self.c, i)
               THEN RetRaise("IndexError")
               ELSE Only({RetValue(
                        Add(Add(Mul(Mul(Rat(3), At(self.a, i)), Mul(dx, dx)),
                                Mul(Mul(Rat(2), At(self.b, i)), dx)),
                            At(self.c, i))) :
                      dx \in {Dx(self, v, i)}}) :
                 i \in {SearchIndex(self, v)}})

SecondDerivative(self, v) ==
    IF OutOfBounds(self, v) THEN RetNone
    ELSE Only({IF ~InRange(self.x, i) \/ ~InRange(self.a, i)
                  \/ ~InRange(self.b, i)
               THEN RetRaise("IndexError")
               ELSE Only({RetValue(
                        Add(Mul(Mul(Rat(6), At(self.a, i)), dx),
                            Mul(Rat(2), At(self.b, i)))) :
                      dx \in {Dx(self, v, i)}}) :
                 i \in {SearchIndex(self, v)}})

----------------------------------------------------------------------------
(* class Spline2D: knots and the sampling sweep.                           *)

IsSquare(n) == \E r \in 0 .. n : r * r = n

Root(n) == CHOOSE r \in 0 .. n : r * r = n

\* np.hypot, on arguments whose squares sum to the square of a fraction
\* (the inputs are drawn so that this is the case, see Representable).
Hypot(p, q) ==
    LET s == Add(Mul(p, p), Mul(q, q))
    IN  <<Root(s[1]), Root(s[2])>>

\* numpy broadcasting of two one-dimensional shapes; -1 when they do not fit.
BroadcastLen(m, n) ==
    IF m = n THEN m ELSE IF m = 1 THEN n ELSE IF n = 1 THEN m ELSE -1

\* Element k (from 1) of s once broadcast.
Bc(s, k) == IF Len(s) = 1 THEN s[1] ELSE s[k]

\* Mutant of ComputeKnots: the differences are paired as zip pairs them,
\* up to the shorter of the two, instead of being broadcast.
ComputeKnotsZip(x, y) ==
    LET dx == Diff(x)
        dy == Diff(y)
        n == IF Len(dx) < Len(dy) THEN Len(dx) ELSE Len(dy)
    IN  [err |-> "",
         knots |-> <<Rat(0)>> \o
                   Cumsum([k \in 1 .. n |-> Hypot(dx[k], dy[k])])]

\* Spline2D._compute_knots: the knots, or the ValueError of np.hypot.
ComputeKnots(x, y) ==
    LET dx == Diff(x)
        dy == Diff(y)
        n == BroadcastLen(Len(dx), Len(dy))
    IN  IF n < 0 THEN [err |-> "ValueError", knots |-> <<>>]
        ELSE [err |-> "",
              knots |-> <<Rat(0)>> \o
                        Cumsum([k \in 1 .. n |-> Hypot(Bc(dx, k), Bc(dy, k))])]

\* Mutant of ARange: the length is rounded down instead of up.
ARangeFloor(start, stop, step) ==
    IF IsZero(step)
    THEN [err |-> "OverflowError", vals |-> <<>>]
    ELSE LET q == Div(Sub(stop, start), step)
             len == q[1] \div q[2]
         IN  [err |-> "",
              vals |-> [k \in 1 .. len |-> Add(start, Mul(Rat(k - 1), step))]]

\* np.arange(start, stop, step): ceil((stop - start) / step) values
\* start + k * step.  A zero step divides by zero: the length is inf
\* (OverflowError) or, for an empty range, nan (ValueError).
ARange(start, stop, step) ==
    IF IsZero(step)
    THEN [err |-> IF IsZero(Sub(stop, start)) THEN "ValueError"
                  ELSE "OverflowError",
          vals |-> <<>>]
    ELSE LET len == Ceil(Div(Sub(stop, start), step))
         IN  [err |-> "",
              vals |-> [k \in 1 .. len |-> Add(start, Mul(Rat(k - 1), step))]]

\* The exception an evaluation's result leads to where a number is needed;
\* "" for a number.  None is not a number: arithmetic on it is a TypeError.
EvalErr(r) ==
    IF r.kind = "value" THEN "" ELSE IF r.kind = "None" THEN "TypeError"
    ELSE r.kind

\* Spline2D._compute_position, as the Coordinate (x, y).
ComputePosition(spline_x, spline_y, i) ==
    <<Position(spline_x, i).val, Position(spline_y, i).val>>

\* The curvature (y2 * x1 - x2 * y1) / (x1^2 + y1^2) ^ (3/2) of the four
\* derivatives.  The value is num / speed2 ^ (3/2), kept as the pair of its
\* numerator and of the squared speed x1^2 + y1^2; a zero squared speed or
\* a non-finite derivative gives a non-finite curvature.
Curvature(x1, x2, y1, y2) ==
    Only({IF IsFinite(t[1]) /\ IsFinite(t[2]) /\ ~IsZero(t[2])
          THEN [num |-> t[1], speed2 |-> t[2]]
          ELSE [num |-> NonFinite, speed2 |-> NonFinite] :
            t \in {<<Sub(Mul(y2, x1), Mul(x2, y1)),
                     Add(Mul(x1, x1), Mul(y1, y1))>>}})

\* Spline2D._compute_curvature.
ComputeCurvature(spline_x, spline_y, i) ==
    Only({Curvature(d.x1, d.x2, d.y1, d.y2) :
            d \in {[x1 |-> FirstDerivative(spline_x, i).val,
                    x2 |-> SecondDerivative(spline_x, i).val,
                    y1 |-> FirstDerivative(spline_y, i).val,
                    y2 |-> SecondDerivative(spline_y, i).val]}})

\* Spline2D._compute_yaw: atan2(y1, x1), kept as its two arguments.
ComputeYaw(spline_x, spline_y, i) ==
    [dy |-> FirstDerivative(spline_y, i).val,
     dx |-> FirstDerivative(spline_x, i).val]

\* The first of the exceptions errs that is one, "" if none is.
FirstErr(errs) ==
    IF \A k \in 1 .. Len(errs) : errs[k] = "" THEN ""
    ELSE errs[CHOOSE k \in 1 .. Len(errs) :
                 errs[k] # "" /\ \A k2 \in 1 .. (k - 1) : errs[k2] = ""]

\* The first exception raised while sample i is evaluated, "" if none.
SampleErr(spline_x, spline_y, i) ==
    Only({FirstErr(errs) :
            errs \in {<<EvalErr(Position(spline_x, i)),
                        EvalErr(Position(spline_y, i)),
                        EvalErr(FirstDerivative(spline_x, i)),
                        EvalErr(SecondDerivative(spline_x, i)),
                        EvalErr(FirstDerivative(spline_y, i)),
                        EvalErr(SecondDerivative(spline_y, i))>>}})

NoResults(e) ==
    [err |-> e, positions |-> <<>>, curvature |-> <<>>, yaw |-> <<>>]

\* The results of a sweep over the parameters vals: the first exception of
\* the first sample that raises one, or the three lists.
SweepResults(spline_x, spline_y, vals) ==
    Only({IF FirstErr(errs) # "" THEN NoResults(FirstErr(errs))
          ELSE [err |-> "",
                positions |-> [k \in 1 .. Len(vals) |->
                    ComputePosition(spline_x, spline_y, vals[k])],
                curvature |-> [k \in 1 .. Len(vals) |->
                    ComputeCurvature(spline_x, spline_y, vals[k])],
                yaw |-> [k \in 1 .. Len(vals) |->
                    ComputeYaw(spline_x, spline_y, vals[k])]] :
            errs \in {[k \in 1 .. Len(vals) |->
                         SampleErr(spline_x, spline_y, vals[k])]}})

\* Spline2D._compute_results.
ComputeResults(knots, spline_x, spline_y, generation_step) ==
    Only({IF sweep.err # "" THEN NoResults(sweep.err)
          ELSE SweepResults(spline_x, spline_y, sweep.vals) :
            sweep \in {ARange(At(knots, 0), At(knots, -1), generation_step)}})

\* Spline2D.__init__(x, y, generation_step): the attributes of the object
\* built, or the exception raised (err).
NoSpline2D(e) ==
    [err |-> e, x |-> <<>>, y |-> <<>>, knots |-> <<>>,
     spline_x |-> NoSpline("unbuilt"), spline_y |-> NoSpline("unbuilt"),
     generation_step |-> Rat(0),
     positions |-> <<>>, curvature |-> <<>>, yaw |-> <<>>]

Spline2DInit(x, y, generation_step) ==
    Only({IF k.err # "" THEN NoSpline2D(k.err) ELSE
    Only({IF sx.err # "" THEN NoSpline2D(sx.err) ELSE
    Only({IF sy.err # "" THEN NoSpline2D(sy.err) ELSE
    Only({IF r.err # "" THEN NoSpline2D(r.err) ELSE
          [err |-> "", x |-> x, y |-> y,
           knots |-> k.knots,
           spline_x |-> sx, spline_y |-> sy,
           generation_step |-> generation_step,
           positions |-> r.positions,
           curvature |-> r.curvature,
           yaw |-> r.yaw] :
        r \in {ComputeResults(k.knots, sx, sy, generation_step)}}) :
        sy \in {SplineInit(k.knots, y)}}) :
        sx \in {SplineInit(k.knots, x)}}) :
        k \in {ComputeKnots(x, y)}})

----------------------------------------------------------------------------
(* class Circumcircle.  Its vertices are Coordinate2D objects, of which    *)
(* the code reads the fields x and y and takes differences.  Python's      *)
(* division raises ZeroDivisionError on a zero divisor.                    *)

Coordinate2D(x, y) == [kind |-> "Coordinate2D", x |-> x, y |-> y]

\* isinstance(value, Coordinate2D)
IsCoordinate2D(value) == value.kind = "Coordinate2D"

\* Circumcircle._ensure_non_collinear raises ValueError.
Collinear(a, b, c) ==
    IsZero(Add(Add(Mul(a.x, Sub(b.y, c.y)), Mul(b.x, Sub(c.y, a.y))),
               Mul(c.x, Sub(a.y, b.y))))

\* The condition any(v[1] - v[0] for v in combinations((a, b, c), 2)).
AnyDiffer(a, b, c) == a # b \/ a # c \/ b # c

\* Vertical alignment prevention: the two conditional swaps of _calculate,
\* giving the vertices <<a, b, c>> as they are stored afterwards.
Realign(a, b, c) ==
    IF ~AnyDiffer(a, b, c) THEN <<a, b, c>>
    ELSE Only({IF IsZero(Sub(s[3].x, s[1].x)) THEN <<s[2], s[1], s[3]>>
               ELSE s :
                 s \in {IF IsZero(Sub(b.x, a.x)) THEN <<c, b, a>>
                        ELSE <<a, b, c>>}})

\* The displacement from vertex p to vertex q.
Displacement(p, q) == [x |-> Sub(q.x, p.x), y |-> Sub(q.y, p.y)]

\* The unitary vector of a displacement d is (d.y / L, -d.x / L) with
\* L = sqrt(d.x ^ 2 + d.y ^ 2).  It is kept as the pair (d.y, -d.x) and
\* the square of L: every use of it below is a ratio of its two
\* components, or a division by one and a multiplication by the other, in
\* which L cancels.
Unitary(d) ==
    [x |-> d.y, y |-> Sub(Rat(0), d.x),
     norm2 |-> Add(Mul(d.x, d.x), Mul(d.y, d.y))]

\* unitary.x / unitary.y
UnitaryRatio(u) == Div(u.x, u.y)

\* The midpoint of the displacement d from the vertex a.
Midpoint(d, a) ==
    [x |-> Add(Div(d.x, Rat(2)), a.x), y |-> Add(Div(d.y, Rat(2)), a.y)]

\* The divisions of _calculate that raise ZeroDivisionError: by the length
\* of a displacement, by unitary.y, and by the sum of the two verticals.
CalculateDivides(ab, ac) ==
    \/ IsZero(Unitary(ab).norm2) \/ IsZero(Unitary(ac).norm2)
    \/ IsZero(Unitary(ab).y) \/ IsZero(Unitary(ac).y)
    \/ IsZero(Add(UnitaryRatio(Unitary(ab)),
                  Sub(Rat(0), UnitaryRatio(Unitary(ac)))))

\* The circumcenter, from the realigned vertex a and the displacements.
Circumcenter(a, ab, ac) ==
    Only({Only({Coordinate2D(
                   Add(i.x, Mul(Div(Sub(m.mac.x, i.x), Add(m.vab, m.vac)),
                                m.vab)),
                   Add(i.y, Div(Sub(m.mac.x, i.x), Add(m.vab, m.vac)))) :
                 i \in {[x |-> Add(m.mab.x,
                                   Mul(Div(Sub(m.mac.y, m.mab.y),
                                           Unitary(ab).y),
                                       Unitary(ab).x)),
                         y |-> m.mac.y]}}) :
            m \in {[vab |-> UnitaryRatio(Unitary(ab)),
                    vac |-> Sub(Rat(0), UnitaryRatio(Unitary(ac))),
                    mab |-> Midpoint(ab, a),
                    mac |-> Midpoint(ac, a)]}})

\* The square of the distance between p and q.
Dist2(p, q) ==
    Add(Mul(Sub(p.x, q.x), Sub(p.x, q.x)), Mul(Sub(p.y, q.y), Sub(p.y, q.y)))

\* The circumradius sqrt((a.x - center.x) ^ 2 + (a.y - center.y) ^ 2),
\* kept as its square.
Circumradius(a, center) == [squared |-> Dist2(a, center)]

NoCenter == Coordinate2D(Rat(0), Rat(0))

NoRadius == [squared |-> Rat(0)]

\* Circumcircle._calculate on the vertices a, b, c: the exception raised
\* (err), the vertices as stored afterwards, the center and the radius.
Calculate(a, b, c) ==
    IF Collinear(a, b, c)
    THEN [err |-> "ValueError", a |-> a, b |-> b, c |-> c,
          center |-> NoCenter, radius |-> NoRadius]
    ELSE Only({IF CalculateDivides(Displacement(v[1], v[2]),
                                   Displacement(v[1], v[3]))
               THEN [err |-> "ZeroDivisionError",
                     a |-> v[1], b |-> v[2], c |-> v[3],
                     center |-> NoCenter, radius |-> NoRadius]
               ELSE Only({[err |-> "", a |-> v[1], b |-> v[2], c |-> v[3],
                           center |-> ctr,
                           radius |-> Circumradius(v[1], ctr)] :
                            ctr \in {Circumcenter(v[1],
                                        Displacement(v[1], v[2]),
                                        Displacement(v[1], v[3]))}}) :
                 v \in {Realign(a, b, c)}})

----------------------------------------------------------------------------
(* class Line.  Its endpoints are Coordinate objects, of which the code    *)
(* reads the fields x and y.                                               *)

Coordinate(x, y) == [kind |-> "Coordinate", x |-> x, y |-> y]

\* isinstance(value, Coordinate)
IsCoordinate(value) == value.kind = "Coordinate"

\* The dictionary _properties: empty, or holding the memoized slope.
NoProperties == [cached |-> FALSE, slope |-> Rat(0)]

\* Mutant of ClearProperties: the memoized slope survives an assignment.
KeepProperties(properties) == properties

\* self._properties.clear()
ClearProperties(properties) == NoProperties

\* (self.b.y - self.a.y) / (self.b.x - self.a.x)
SlopeOf(a, b) ==
    IF IsZero(Sub(b.x, a.x)) THEN RetRaise("ZeroDivisionError")
    ELSE RetValue(Div(Sub(b.y, a.y), Sub(b.x, a.x)))

----------------------------------------------------------------------------
(* The state: one Spline under test with the last call made on it, one     *)
(* Spline2D with its attributes, one Circumcircle and one Line.            *)

VARIABLES
    args1,              \* the arguments x, y of Spline(x, y)
    spline,             \* the Spline; err is "unbuilt" before the call
    call,               \* the last evaluation called: op and argument q
    ret,                \* what it returned or raised
    args2,              \* the arguments of Spline2D(x, y, generation_step)
    status,             \* "new", "constructed" or "raised"
    raised,             \* the exception of the last operation, "" if none
    _x, _y, _knots, _spline_x, _spline_y, _generation_step,
    _positions, _curvature, _yaw,
    args3,              \* the arguments a, b, c of Circumcircle(a, b, c)
    circle_status,      \* "new", "constructed" or "raised"
    circle_raised,      \* the exception of the last operation, "" if none
    _initial_setting, _a, _b, _c, _center, _radius,
    args4,              \* the arguments a, b of Line(a, b)
    line_status,        \* "new" or "constructed"
    line_raised,        \* the exception of the last operation, "" if none
    line_a, line_b,     \* the Line's _a and _b
    _properties,
    line_op,            \* the last operation on the Line
    slope_read,         \* what the last read of slope gave
    slope_before        \* what the read of slope before it gave

vars == <<args1, spline, call, ret, args2, status, raised,
          _x, _y, _knots, _spline_x, _spline_y, _generation_step,
          _positions, _curvature, _yaw,
          args3, circle_status, circle_raised,
          _initial_setting, _a, _b, _c, _center, _radius,
          args4, line_status, line_raised, line_a, line_b, _properties,
          line_op, slope_read, slope_before>>

vars1 == <<args1, spline, call, ret>>

vars2 == <<args2, status, raised,
           _x, _y, _knots, _spline_x, _spline_y, _generation_step,
           _positions, _curvature, _yaw>>

vars3 == <<args3, circle_status, circle_raised,
           _initial_setting, _a, _b, _c, _center, _radius>>

vars4 == <<args4, line_status, line_raised, line_a, line_b, _properties,
           line_op, slope_read, slope_before>>

\* Number sequences of length 0 .. n over S.
SeqsUpTo(S, n) == UNION {[1 .. k -> S] : k \in 0 .. n}

Inputs == SeqsUpTo({Rat(v) : v \in Coords}, MaxLen)

\* Queried parameters: the halves from -1 up.
Queries == {Norm(k, 2) : k \in -2 .. MaxQueryNum}

\* Sampling steps handed to Spline2D and to the generation_step setter: one
\* negative, zero, one that divides every arc length and one that does not.
Steps == {Norm(-1, 2), Rat(0), Norm(1, 2), Rat(2)}

\* Sequences assigned to x and y after construction.
Assigned == {<<Rat(0)>>, <<Rat(4), Rat(0)>>}

\* The waypoint distances np.hypot computes are fractions.
Representable(x, y) ==
    LET dx == Diff(x)
        dy == Diff(y)
        n == BroadcastLen(Len(dx), Len(dy))
    IN  \A k \in 1 .. n :
            LET s == Add(Mul(Bc(dx, k), Bc(dx, k)), Mul(Bc(dy, k), Bc(dy, k)))
            IN  IsSquare(s[1]) /\ IsSquare(s[2])

NoArgs1 == [x |-> <<>>, y |-> <<>>]

NoArgs2 == [x |-> <<>>, y |-> <<>>, generation_step |-> Rat(0)]

NoCall == [op |-> "none", q |-> Rat(0)]

\* The points handed to Circumcircle and to Line, as (x, y) pairs.
Points == {Rat(v) : v \in Coords} \X {Rat(v) : v \in Coords}

\* An object that is neither a Coordinate2D nor a Coordinate.
NotCoordinate == [kind |-> "other", x |-> Rat(0), y |-> Rat(0)]

\* Vertices handed to Circumcircle.
Vertices == {Coordinate2D(p[1], p[2]) : p \in Points}

\* Endpoints handed to Line.
Endpoints == {Coordinate(p[1], p[2]) : p \in Points}

\* The points assigned after construction.
Moves == {<<Rat(0), Rat(0)>>, <<Rat(4), Rat(0)>>, <<Rat(3), Rat(4)>>}

\* Values assigned to a vertex of a Circumcircle.
NewVertices == {Coordinate2D(p[1], p[2]) : p \in Moves} \cup {NotCoordinate}

\* Values assigned to an endpoint of a Line.
NewEndpoints == {Coordinate(p[1], p[2]) : p \in Moves} \cup {NotCoordinate}

\* Indices handed to Line.__setitem__.
Indices == {0, 1, 2}

NoArgs3 == [a |-> NoCenter, b |-> NoCenter, c |-> NoCenter]

NoArgs4 == [a |-> Coordinate(Rat(0), Rat(0)), b |-> Coordinate(Rat(0), Rat(0))]

Idle1 ==
    /\ args1 = NoArgs1
    /\ spline = NoSpline("unbuilt")
    /\ call = NoCall
    /\ ret = RetNone

Idle2 ==
    /\ args2 = NoArgs2
    /\ status = "new"
    /\ raised = ""
    /\ _x = <<>> /\ _y = <<>> /\ _knots = <<>>
    /\ _spline_x = NoSpline("unbuilt") /\ _spline_y = NoSpline("unbuilt")
    /\ _generation_step = Rat(0)
    /\ _positions = <<>> /\ _curvature = <<>> /\ _yaw = <<>>

Idle3 ==
    /\ args3 = NoArgs3
    /\ circle_status = "new"
    /\ circle_raised = ""
    /\ _initial_setting = FALSE
    /\ _a = NoCenter /\ _b = NoCenter /\ _c = NoCenter
    /\ _center = NoCenter /\ _radius = NoRadius

Idle4 ==
    /\ args4 = NoArgs4
    /\ line_status = "new"
    /\ line_raised = ""
    /\ line_a = NoArgs4.a /\ line_b = NoArgs4.b
    /\ _properties = NoProperties
    /\ line_op = "none"
    /\ slope_read = RetNone /\ slope_before = RetNone

----------------------------------------------------------------------------
(* Spline: construction and the three evaluators.                          *)

Init1D ==
    /\ args1 \in [x : Inputs, y : Inputs]
    /\ spline = NoSpline("unbuilt")
    /\ call = NoCall
    /\ ret = RetNone
    /\ Idle2 /\ Idle3 /\ Idle4

\* Spline(x, y)
NewSpline ==
    /\ spline.err = "unbuilt"
    /\ spline' = SplineInit(args1.x, args1.y)
    /\ UNCHANGED <<args1, call, ret>>
    /\ UNCHANGED <<vars2, vars3, vars4>>

\* spline.position(q)
CallPosition(q) ==
    /\ spline.err = ""
    /\ call' = [op |-> "position", q |-> q]
    /\ ret' = Position(spline, q)
    /\ UNCHANGED <<args1, spline>>
    /\ UNCHANGED <<vars2, vars3, vars4>>

\* spline.first_derivative(q)
CallFirstDerivative(q) ==
    /\ spline.err = ""
    /\ call' = [op |-> "first_derivative", q |-> q]
    /\ ret' = FirstDerivative(spline, q)
    /\ UNCHANGED <<args1, spline>>
    /\ UNCHANGED <<vars2, vars3, vars4>>

\* spline.second_derivative(q)
CallSecondDerivative(q) ==
    /\ spline.err = ""
    /\ call' = [op |-> "second_derivative", q |-> q]
    /\ ret' = SecondDerivative(spline, q)
    /\ UNCHANGED <<args1, spline>>
    /\ UNCHANGED <<vars2, vars3, vars4>>

Next1D ==
    \/ NewSpline
    \/ \E q \in Queries : CallPosition(q)
    \/ \E q \in Queries : CallFirstDerivative(q)
    \/ \E q \in Queries : CallSecondDerivative(q)

Spec1D == Init1D /\ [][Next1D]_vars

----------------------------------------------------------------------------
(* Spline2D: construction and the attribute setters of Spline2DBase.       *)

Init ==
    /\ args2 \in {a \in [x : Inputs, y : Inputs, generation_step : Steps] :
                     Representable(a.x, a.y)}
    /\ status = "new"
    /\ raised = ""
    /\ _x = <<>> /\ _y = <<>> /\ _knots = <<>>
    /\ _spline_x = NoSpline("unbuilt") /\ _spline_y = NoSpline("unbuilt")
    /\ _generation_step = Rat(0)
    /\ _positions = <<>> /\ _curvature = <<>> /\ _yaw = <<>>
    /\ Idle1 /\ Idle3 /\ Idle4

\* Spline2D(x, y, generation_step)
NewSpline2D ==
    /\ status = "new"
    /\ \E obj \in {Spline2DInit(args2.x, args2.y, args2.generation_step)} :
           IF obj.err # ""
           THEN /\ status' = "raised"
                /\ raised' = obj.err
                /\ UNCHANGED <<_x, _y, _knots, _spline_x, _spline_y,
                               _generation_step, _positions, _curvature, _yaw>>
           ELSE /\ status' = "constructed"
                /\ raised' = ""
                /\ _x' = obj.x
                /\ _y' = obj.y
                /\ _knots' = obj.knots
                /\ _spline_x' = obj.spline_x
                /\ _spline_y' = obj.spline_y
                /\ _generation_step' = obj.generation_step
                /\ _positions' = obj.positions
                /\ _curvature' = obj.curvature
                /\ _yaw' = obj.yaw
    /\ UNCHANGED args2
    /\ UNCHANGED <<vars1, vars3, vars4>>

\* The isinstance checks of the setters: a list of numbers, a number.
IsNumberList(value) == \A k \in 1 .. Len(value) : value[k] \in Int \X Nat

IsNumber(value) == value \in Int \X Nat

\* spline2d.x = value
SetX(value) ==
    /\ status = "constructed"
    /\ IF ~IsNumberList(value)
       THEN raised' = "TypeError" /\ UNCHANGED _x
       ELSE raised' = "" /\ _x' = value
    /\ UNCHANGED <<args2, status, _y, _knots, _spline_x, _spline_y,
                   _generation_step, _positions, _curvature, _yaw>>
    /\ UNCHANGED <<vars1, vars3, vars4>>

\* spline2d.y = value
SetY(value) ==
    /\ status = "constructed"
    /\ IF ~IsNumberList(value)
       THEN raised' = "TypeError" /\ UNCHANGED _y
       ELSE raised' = "" /\ _y' = value
    /\ UNCHANGED <<args2, status, _x, _knots, _spline_x, _spline_y,
                   _generation_step, _positions, _curvature, _yaw>>
    /\ UNCHANGED <<vars1, vars3, vars4>>

\* spline2d.generation_step = value
SetGenerationStep(value) ==
    /\ status = "constructed"
    /\ IF ~IsNumber(value)
       THEN raised' = "TypeError" /\ UNCHANGED _generation_step
       ELSE IF Leq(value, Rat(0))
            THEN raised' = "ValueError" /\ UNCHANGED _generation_step
            ELSE raised' = "" /\ _generation_step' = value
    /\ UNCHANGED <<args2, status, _x, _y, _knots, _spline_x, _spline_y,
                   _positions, _curvature, _yaw>>
    /\ UNCHANGED <<vars1, vars3, vars4>>

Next ==
    \/ NewSpline2D
    \/ \E value \in Assigned : SetX(value)
    \/ \E value \in Assigned : SetY(value)
    \/ \E value \in Steps : SetGenerationStep(value)

Spec == Init /\ [][Next]_vars

----------------------------------------------------------------------------
(* Circumcircle: construction and the vertex setters.                      *)

InitCircumcircle ==
    /\ args3 \in [a : Vertices, b : Vertices, c : Vertices]
    /\ circle_status = "new"
    /\ circle_raised = ""
    /\ _initial_setting = FALSE
    /\ _a = NoCenter /\ _b = NoCenter /\ _c = NoCenter
    /\ _center = NoCenter /\ _radius = NoRadius
    /\ Idle1 /\ Idle2 /\ Idle4

\* Circumcircle(a, b, c): the three vertices are stored, _initial_setting
\* is set to True and _calculate runs.
NewCircumcircle ==
    /\ circle_status = "new"
    /\ \E r \in {Calculate(args3.a, args3.b, args3.c)} :
           IF r.err # ""
           THEN /\ circle_status' = "raised"
                /\ circle_raised' = r.err
                /\ UNCHANGED <<_initial_setting, _a, _b, _c, _center, _radius>>
           ELSE /\ circle_status' = "constructed"
                /\ circle_raised' = ""
                /\ _initial_setting' = TRUE
                /\ _a' = r.a /\ _b' = r.b /\ _c' = r.c
                /\ _center' = r.center
                /\ _radius' = r.radius
    /\ UNCHANGED args3
    /\ UNCHANGED <<vars1, vars2, vars4>>

\* What follows the assignment of a vertex in a setter: _calculate runs on
\* the vertices a, b, c if _initial_setting is False, else nothing does.
Recalculate(a, b, c) ==
    IF ~_initial_setting
    THEN \E r \in {Calculate(a, b, c)} :
           /\ circle_raised' = r.err
           /\ _a' = r.a /\ _b' = r.b /\ _c' = r.c
           /\ IF r.err # "" THEN UNCHANGED <<_center, _radius>>
              ELSE _center' = r.center /\ _radius' = r.radius
    ELSE /\ circle_raised' = ""
         /\ _a' = a /\ _b' = b /\ _c' = c
         /\ UNCHANGED <<_center, _radius>>

\* circumcircle.a = value
SetA(value) ==
    /\ circle_status = "constructed"
    /\ IF ~IsCoordinate2D(value)
       THEN /\ circle_raised' = "TypeError"
            /\ UNCHANGED <<_a, _b, _c, _center, _radius>>
       ELSE Recalculate(value, _b, _c)
    /\ UNCHANGED <<args3, circle_status, _initial_setting>>
    /\ UNCHANGED <<vars1, vars2, vars4>>

\* circumcircle.b = value
SetB(value) ==
    /\ circle_status = "constructed"
    /\ IF ~IsCoordinate2D(value)
       THEN /\ circle_raised' = "TypeError"
            /\ UNCHANGED <<_a, _b, _c, _center, _radius>>
       ELSE Recalculate(_a, value, _c)
    /\ UNCHANGED <<args3, circle_status, _initial_setting>>
    /\ UNCHANGED <<vars1, vars2, vars4>>

\* circumcircle.c = value
SetC(value) ==
    /\ circle_status = "constructed"
    /\ IF ~IsCoordinate2D(value)
       THEN /\ circle_raised' = "TypeError"
            /\ UNCHANGED <<_a, _b, _c, _center, _radius>>
       ELSE Recalculate(_a, _b, value)
    /\ UNCHANGED <<args3, circle_status, _initial_setting>>
    /\ UNCHANGED <<vars1, vars2, vars4>>

NextCircumcircle ==
    \/ NewCircumcircle
    \/ \E value \in NewVertices : SetA(value)
    \/ \E value \in NewVertices : SetB(value)
    \/ \E value \in NewVertices : SetC(value)

SpecCircumcircle == InitCircumcircle /\ [][NextCircumcircle]_vars

----------------------------------------------------------------------------
(* Line: construction, the endpoint setters, item assignment and slope.    *)

InitLine ==
    /\ args4 \in [a : Endpoints, b : Endpoints]
    /\ line_status = "new"
    /\ line_raised = ""
    /\ line_a = NoArgs4.a /\ line_b = NoArgs4.b
    /\ _properties = NoProperties
    /\ line_op = "none"
    /\ slope_read = RetNone /\ slope_before = RetNone
    /\ Idle1 /\ Idle2 /\ Idle3

\* Line(a, b): _properties = {} and the two setters.
NewLine ==
    /\ line_status = "new"
    /\ line_status' = "constructed"
    /\ line_raised' = ""
    /\ line_a' = args4.a
    /\ line_b' = args4.b
    /\ _properties' = ClearProperties(ClearProperties(NoProperties))
    /\ UNCHANGED <<args4, line_op, slope_read, slope_before>>
    /\ UNCHANGED <<vars1, vars2, vars3>>

\* The setter of a
AssignA(value) ==
    IF ~IsCoordinate(value)
    THEN /\ line_raised' = "TypeError"
         /\ UNCHANGED <<line_a, line_b, _properties>>
    ELSE /\ line_raised' = ""
         /\ line_a' = value
         /\ _properties' = ClearProperties(_properties)
         /\ UNCHANGED line_b

\* The setter of b
AssignB(value) ==
    IF ~IsCoordinate(value)
    THEN /\ line_raised' = "TypeError"
         /\ UNCHANGED <<line_a, line_b, _properties>>
    ELSE /\ line_raised' = ""
         /\ line_b' = value
         /\ _properties' = ClearProperties(_properties)
         /\ UNCHANGED line_a

\* line.a = value
LineSetA(value) ==
    /\ line_status = "constructed"
    /\ AssignA(value)
    /\ line_op' = "set"
    /\ UNCHANGED <<args4, line_status, slope_read, slope_before>>
    /\ UNCHANGED <<vars1, vars2, vars3>>

\* line.b = value
LineSetB(value) ==
    /\ line_status = "constructed"
    /\ AssignB(value)
    /\ line_op' = "set"
    /\ UNCHANGED <<args4, line_status, slope_read, slope_before>>
    /\ UNCHANGED <<vars1, vars2, vars3>>

\* line[index] = value
SetItem(index, value) ==
    /\ line_status = "constructed"
    /\ IF index = 0 THEN AssignA(value)
       ELSE IF index = 1 THEN AssignB(value)
       ELSE /\ line_raised' = "IndexError"
            /\ UNCHANGED <<line_a, line_b, _properties>>
    /\ line_op' = "set"
    /\ UNCHANGED <<args4, line_status, slope_read, slope_before>>
    /\ UNCHANGED <<vars1, vars2, vars3>>

\* line.slope: computed and memoized if _properties holds none, then read
\* from _properties.  A division by zero raises before anything is stored.
ReadSlope ==
    /\ line_status = "constructed"
    /\ IF ~_properties.cached
       THEN \E s \in {SlopeOf(line_a, line_b)} :
              IF s.kind # "value"
              THEN /\ line_raised' = s.kind
                   /\ slope_read' = s
                   /\ UNCHANGED _properties
              ELSE /\ line_raised' = ""
                   /\ _properties' = [cached |-> TRUE, slope |-> s.val]
                   /\ slope_read' = s
       ELSE /\ line_raised' = ""
            /\ slope_read' = RetValue(_properties.slope)
            /\ UNCHANGED _properties
    /\ slope_before' = slope_read
    /\ line_op' = "slope"
    /\ UNCHANGED <<args4, line_status, line_a, line_b>>
    /\ UNCHANGED <<vars1, vars2, vars3>>

NextLine ==
    \/ NewLine
    \/ \E value \in NewEndpoints : LineSetA(value)
    \/ \E value \in NewEndpoints : LineSetB(value)
    \/ \E index \in Indices, value \in NewEndpoints :
           SetItem(index, value)
    \/ ReadSlope

SpecLine == InitLine /\ [][NextLine]_vars

----------------------------------------------------------------------------
(* Properties of Spline, checked under Spec1D.                             *)

StrictlyIncreasing(s) == \A k \in 1 .. (Len(s) - 1) : Less(s[k], s[k + 1])

\* The Spline was built from N >= 2 strictly increasing knots and N values.
ValidFit ==
    /\ spline.err = ""
    /\ Len(args1.x) >= 2
    /\ Len(args1.y) = Len(args1.x)
    /\ StrictlyIncreasing(args1.x)

Called == call.op # "none"

\* C1: on a fitted spline each evaluator returns None, without raising,
\* exactly when q < t[0] or q > t[N-1], and a number for every q inside
\* [t[0], t[N-1]].
C1_NoneExactlyOutside ==
    (ValidFit /\ Called) =>
        IF Less(call.q, At(spline.x, 0)) \/ Less(At(spline.x, -1), call.q)
        THEN ret.kind = "None"
        ELSE ret.kind = "value"

\* C2: a query exactly at the last knot t[N-1] resolves to a segment index
\* in 0 .. N-2, one for which a and c exist, and returns a value.
C2_LastKnotResolves ==
    (ValidFit /\ Called /\ call.q = At(spline.x, -1)) =>
        /\ SearchIndex(spline, call.q) \in 0 .. (spline.x_dim - 2)
        /\ SearchIndex(spline, call.q) < Len(spline.a)
        /\ SearchIndex(spline, call.q) < Len(spline.c)
        /\ ret.kind = "value"

\* C5: Spline(t, y) raises whenever len(t) # len(y) or len(t) < 2.
C5_RejectsBadLengths ==
    (spline.err # "unbuilt"
        /\ (Len(args1.x) # Len(args1.y) \/ Len(args1.x) < 2))
    => spline.err # ""

\* C10: on a valid fit b[0] = b[N-1] = 0, and second_derivative evaluated
\* at t[0] and at t[N-1] is 0.
C10_NaturalBoundary ==
    ValidFit =>
        /\ At(spline.b, 0) = Rat(0)
        /\ At(spline.b, spline.x_dim - 1) = Rat(0)
        /\ (call.op = "second_derivative"
              /\ call.q \in {At(spline.x, 0), At(spline.x, -1)})
           => ret = RetValue(Rat(0))

\* C11: on a valid fit position evaluated at a knot t[k] returns y[k], for
\* every k in 0 .. N-1, the last knot included.
C11_InterpolationExact ==
    (ValidFit /\ call.op = "position") =>
        \A k \in 1 .. Len(args1.x) :
            call.q = args1.x[k] => ret = RetValue(args1.y[k])

\* The widths h of the knots the Spline was given.
Widths == Diff(args1.x)

\* The matrix __calc_matrix_a was called on exists: Spline(x, y) got past it.
MatrixBuilt ==
    /\ spline.err # "unbuilt"
    /\ Len(args1.x) >= 2
    /\ ~CalcMatrixARaises(Widths, Len(args1.x))

\* Entry [r, c] of the matrix A of the specification for N knots of widths h.
SpecifiedA(h, N, r, c) ==
    IF r = c /\ (r = 0 \/ r = N - 1) THEN Rat(1)
    ELSE IF r \in 1 .. (N - 2) /\ c = r - 1 THEN At(h, r - 1)
    ELSE IF r \in 1 .. (N - 2) /\ c = r
         THEN Mul(Rat(2), Add(At(h, r - 1), At(h, r)))
    ELSE IF r \in 1 .. (N - 2) /\ c = r + 1 THEN At(h, r)
    ELSE Rat(0)

\* C13: for N >= 2 knots the matrix built by __calc_matrix_a is the N x N
\* matrix with A[0,0] = A[N-1,N-1] = 1, interior rows h[i-1],
\* 2 * (h[i-1] + h[i]), h[i] around the diagonal, and 0 everywhere else.
C13_MatrixA ==
    MatrixBuilt =>
        \A m \in {CalcMatrixA(Widths, Len(args1.x))} :
            /\ DOMAIN m = (0 .. Len(args1.x) - 1) \X (0 .. Len(args1.x) - 1)
            /\ \A rc \in DOMAIN m :
                   m[rc] = SpecifiedA(Widths, Len(args1.x), rc[1], rc[2])

\* C13 witness: three knots of different nonzero widths, so that the
\* interior row and the entries the loop wrote into the boundary rows are
\* all nonzero before the boundary rows are reset.
C13_Witness ==
    /\ MatrixBuilt
    /\ Len(args1.x) = 3
    /\ ~IsZero(Widths[1]) /\ ~IsZero(Widths[2]) /\ Widths[1] # Widths[2]
    /\ CalcMatrixA(Widths, 3)[<<1, 1>>] = Mul(Rat(2), Add(Widths[1], Widths[2]))
    /\ CalcMatrixA(Widths, 3)[<<0, 1>>] = Rat(0)

----------------------------------------------------------------------------
(* Properties of Spline2D, checked under Spec.                             *)

Positive(p) == Less(Rat(0), p)

\* Waypoint k and waypoint k + 1 of the constructor's arguments coincide.
Coincide(k) ==
    args2.x[k] = args2.x[k + 1] /\ args2.y[k] = args2.y[k + 1]

\* The constructor was given N >= 2 waypoints.
Waypoints == Len(args2.x) = Len(args2.y) /\ Len(args2.x) >= 2

DistinctWaypoints ==
    Waypoints /\ \A k \in 1 .. (Len(args2.x) - 1) : ~Coincide(k)

\* C3: constructing with a step <= 0 raises, for every valid waypoint
\* input; no instance with a non-positive step exists.
C3_RejectsNonPositiveStep ==
    (status # "new" /\ DistinctWaypoints) =>
        /\ ~Positive(args2.generation_step) => status = "raised"
        /\ status = "constructed" => Positive(_generation_step)

\* C4: constructing with x and y of different lengths raises; no instance
\* is produced.
C4_RejectsDifferentLengths ==
    (status # "new" /\ Len(args2.x) # Len(args2.y)) =>
        /\ status = "raised"
        /\ raised \in {"ValueError", "IndexError", "LinAlgError"}
        /\ _knots = <<>> /\ _positions = <<>>

\* C4 witness: x of length 2 broadcasts against y of length 3, the knots
\* are computed, and the construction still raises.
C4_Witness ==
    /\ status = "raised"
    /\ Len(args2.x) = 2 /\ Len(args2.y) = 3
    /\ ComputeKnots(args2.x, args2.y).err = ""
    /\ raised = "IndexError"

\* C6: constructing from waypoints two consecutive of which coincide
\* raises; construction never completes on them.
C6_RejectsCoincident ==
    (status # "new" /\ Waypoints /\ Positive(args2.generation_step)
        /\ \E k \in 1 .. (Len(args2.x) - 1) : Coincide(k))
    => status = "raised"

\* C7: a constructed Spline2D keeps the x, y and generation_step it was
\* built with, and its knots, positions, curvature and yaw are those derived
\* from its current x, y and generation_step.
C7_Immutable ==
    (status = "constructed" /\ DistinctWaypoints
        /\ Positive(args2.generation_step)) =>
        /\ _x = args2.x /\ _y = args2.y
        /\ _generation_step = args2.generation_step
        /\ \A obj \in {Spline2DInit(_x, _y, _generation_step)} :
               /\ obj.err = ""
               /\ _knots = obj.knots
               /\ _positions = obj.positions
               /\ _curvature = obj.curvature
               /\ _yaw = obj.yaw

\* C8: for N >= 2 waypoints, consecutive ones distinct, the knots are N
\* values, knot[0] = 0, each knot exceeds the one before by the Euclidean
\* distance between its two waypoints, and the sequence strictly increases.
C8_Knots ==
    (status = "constructed" /\ DistinctWaypoints) =>
        /\ Len(_knots) = Len(args2.x)
        /\ At(_knots, 0) = Rat(0)
        /\ \A k \in 1 .. (Len(args2.x) - 1) :
              LET step == Sub(_knots[k + 1], _knots[k])
                  dx == Sub(args2.x[k + 1], args2.x[k])
                  dy == Sub(args2.y[k + 1], args2.y[k])
              IN  /\ Positive(step)
                  /\ Mul(step, step) = Add(Mul(dx, dx), Mul(dy, dy))
        /\ StrictlyIncreasing(_knots)

\* C8 witness: three waypoints, the first move diagonal (length 5), the
\* second along an axis.
C8_Witness ==
    /\ status = "constructed" /\ DistinctWaypoints
    /\ Len(_knots) = 3
    /\ _knots[2] = Rat(5)
    /\ Less(Rat(5), _knots[3])

\* The k-th parameter of the sweep of the object as it was constructed.
SweepAt(k) == Add(At(_knots, 0), Mul(Rat(k), args2.generation_step))

\* C9: with a step > 0 the sweep visits exactly the parameters
\* knot[0] + k * step below knot[-1], never the last knot; positions,
\* curvature and yaw have one entry per visited parameter, computed there.
C9_HalfOpenSweep ==
    (status = "constructed" /\ Positive(args2.generation_step)) =>
        LET n == Len(_positions)
        IN  /\ Len(_curvature) = n /\ Len(_yaw) = n
            /\ \A k \in 0 .. (n - 1) : Less(SweepAt(k), At(_knots, -1))
            /\ ~Less(SweepAt(n), At(_knots, -1))
            /\ \A k \in 0 .. (n - 1) :
                  /\ _positions[k + 1] =
                        ComputePosition(_spline_x, _spline_y, SweepAt(k))
                  /\ _curvature[k + 1] =
                        ComputeCurvature(_spline_x, _spline_y, SweepAt(k))
                  /\ _yaw[k + 1] =
                        ComputeYaw(_spline_x, _spline_y, SweepAt(k))

\* C9 witness: the step divides the arc length, so that the parameter after
\* the last sample is the last knot itself, and it was not sampled.
C9_Witness ==
    /\ status = "constructed" /\ Positive(args2.generation_step)
    /\ Len(_positions) >= 2
    /\ SweepAt(Len(_positions)) = At(_knots, -1)
    /\ Len(_curvature) = Len(_positions)

----------------------------------------------------------------------------
(* Properties of Circumcircle, checked under SpecCircumcircle.             *)

\* The current vertices are the corners of a triangle.
Triangle == ~Collinear(_a, _b, _c)

\* C12: after any sequence of vertex assignments, center and radius are
\* those of the circumcircle of the current vertices a, b, c: the center is
\* at the distance radius from each of them.
C12_RecalculatesOnAssignment ==
    (circle_status = "constructed" /\ Triangle) =>
        /\ Dist2(_center, _a) = _radius.squared
        /\ Dist2(_center, _b) = _radius.squared
        /\ Dist2(_center, _c) = _radius.squared

----------------------------------------------------------------------------
(* Properties of Line, checked under SpecLine.                             *)

\* C14: every read of slope gives (b.y - a.y) / (b.x - a.x) of the current
\* endpoints, and a memoized slope is never one of earlier endpoints.
C14_SlopeOfCurrentEndpoints ==
    line_status = "constructed" =>
        /\ line_op = "slope" => slope_read = SlopeOf(line_a, line_b)
        /\ _properties.cached =>
              RetValue(_properties.slope) = SlopeOf(line_a, line_b)

\* C14 witness: slope was read and memoized, an endpoint was assigned, and
\* slope read again gave another value.
C14_Witness ==
    /\ line_op = "slope"
    /\ slope_before.kind = "value"
    /\ slope_read.kind = "value"
    /\ slope_read # slope_before
    /\ _properties.cached

====
